---- MODULE Spec2Model ----
(***************************************************************************)
(* Model of fluxpy/legacy/transform.py: the loaders hdf5_to_dataframe and  *)
(* mat_to_dataframe, the exporters to_csv, to_json and to_geojson, and the *)
(* batch converter bulk_hdf5_to_csv.                                       *)
(*                                                                         *)
(* Conventions.  A Python string is a sequence of symbols (a symbol is a   *)
(* character, or the literal block "Month_Uncert" which contains no '.'    *)
(* and no strippable character at its ends).  An optional argument is <<>> *)
(* for None and <<v>> for the value v.  A float is an integer.  The text    *)
(* str(datetime) 'YYYY-MM-DD HH:MM:SS' is the 6-tuple of its fields.       *)
(***************************************************************************)
EXTENDS Integers, Sequences, FiniteSets, TLC

VARIABLES
    pc,         \* position of the caller: "start", "loaded", "raised", "bulk", "done"
    path,       \* the path argument of the loader / of bulk_hdf5_to_csv
    fileVar,    \* name of the variable stored in the container at path
    matrix,     \* [shape |-> <<R, C>>, data |-> rows]: the array stored under fileVar
    fn,         \* the loader that was called
    var_arg,    \* argument var_name of the call (optional)
    var_name,   \* local var_name of the running function (optional)
    limit,      \* argument limit of the loader (optional)
    dt,         \* local dt of the loader after line 57 / 85 (optional before the call)
    cols,       \* local cols after line 62 / 90, before any limit is applied
    df,         \* the DataFrame returned by the loader
    fs,         \* output files: file name -> the sequence of documents it holds
    lastCall,   \* the last exporter call: [fn, filename, replaced]
    listing,    \* os.listdir(path): sequence of [name, opens, vars]
    regex,      \* argument regex of bulk_hdf5_to_csv (optional)
    i,          \* number of listing entries the for loop has consumed
    csvs,       \* DataFrame.to_csv calls of the batch: [src, file, var]
    stderr      \* lines written to sys.stderr

loaderVars == <<path, fileVar, matrix, fn, var_arg, var_name, limit, dt, cols, df>>
exportVars == <<fs, lastCall>>
bulkVars == <<listing, regex, i, csvs, stderr>>
vars == <<pc, path, fileVar, matrix, fn, var_arg, var_name, limit, dt, cols, df,
          fs, lastCall, listing, regex, i, csvs, stderr>>

----------------------------------------------------------------------------
(* Bounds *)

MaxRows == 2
MaxCols == 4
MaxLimit == 3
MaxPathLen == 3
MaxFiles == 3

Vals == {0, 1}

Some(x) == <<x>>

Range(s) == {s[k] : k \in 1..Len(s)}

Min(a, b) == IF a < b THEN a ELSE b

\* Python slice s[0:n] for n >= 0
Take(s, n) == SubSeq(s, 1, Min(n, Len(s)))

\* Python slice s[n:] for n >= 0
Drop(s, n) == SubSeq(s, n + 1, Len(s))

----------------------------------------------------------------------------
(* Strings: split('.')[0] and strip('_- 0123456789') *)

StripChars == {"_", "-", " ", "0", "1", "2", "3", "4", "5", "6", "7", "8", "9"}

RECURSIVE SplitFirst(_, _)
\* s.split(sep)[0]: the part of s before the first occurrence of sep
SplitFirst(s, sep) ==
    IF s = <<>> THEN <<>>
    ELSE IF Head(s) = sep THEN <<>>
    ELSE <<Head(s)>> \o SplitFirst(Tail(s), sep)

RECURSIVE LStrip(_, _)
LStrip(s, chars) ==
    IF s = <<>> THEN <<>>
    ELSE IF Head(s) \in chars THEN LStrip(Tail(s), chars)
    ELSE s

RECURSIVE RStrip(_, _)
RStrip(s, chars) ==
    IF s = <<>> THEN <<>>
    ELSE IF s[Len(s)] \in chars THEN RStrip(SubSeq(s, 1, Len(s) - 1), chars)
    ELSE s

Strip(s, chars) == RStrip(LStrip(s, chars), chars)

\* line 28 / line 54: <name>.split('.')[0].strip('_- 0123456789')
DeriveVarName(s) == Strip(SplitFirst(s, "."), StripChars)

----------------------------------------------------------------------------
(* datetime, relativedelta(hours=...) and str(datetime) *)

DefaultEpoch == [year |-> 2003, month |-> 12, day |-> 22, hour |-> 3, minute |-> 0, second |-> 0]

IsLeap(y) == (y % 4 = 0) /\ ((y % 100 # 0) \/ (y % 400 = 0))

DaysInMonth(y, m) ==
    IF m = 2 THEN (IF IsLeap(y) THEN 29 ELSE 28)
    ELSE IF m \in {4, 6, 9, 11} THEN 30 ELSE 31

RECURSIVE AddDays(_, _)
AddDays(d, n) ==
    IF n = 0 THEN d
    ELSE IF d.day < DaysInMonth(d.year, d.month)
         THEN AddDays([d EXCEPT !.day = d.day + 1], n - 1)
    ELSE IF d.month < 12
         THEN AddDays([d EXCEPT !.day = 1, !.month = d.month + 1], n - 1)
    ELSE AddDays([d EXCEPT !.day = 1, !.month = 1, !.year = d.year + 1], n - 1)

\* d + relativedelta(hours=+h), h >= 0
AddHours(d, h) ==
    AddDays([d EXCEPT !.hour = (d.hour + h) % 24], (d.hour + h) \div 24)

\* str(d): 'YYYY-MM-DD HH:MM:SS'
Str(d) == <<d.year, d.month, d.day, d.hour, d.minute, d.second>>

StepHours == 3

\* mutant of ColumnLabels: the first timestamp is one step after the epoch
ColumnLabelsLate(intervals, d) ==
    <<<<"lng">>, <<"lat">>>> \o
    [j \in 1..(IF intervals > 0 THEN intervals ELSE 0) |-> Str(AddHours(d, StepHours * j))]

\* lines 61-62 / 89-90: cols = ['lng', 'lat'] + [str(dt + 3j hours) for j in range(intervals)]
ColumnLabels(intervals, d) ==
    <<<<"lng">>, <<"lat">>>> \o
    [j \in 1..(IF intervals > 0 THEN intervals ELSE 0) |-> Str(AddHours(d, StepHours * (j - 1)))]

----------------------------------------------------------------------------
(* pandas DataFrame: [index |-> row keys, columns |-> labels, data |-> rows] *)

\* pd.DataFrame(array, columns=cols): default integer index
DataFrame(m, c) ==
    [index |-> [r \in 1..m.shape[1] |-> <<r - 1>>], columns |-> c, data |-> m.data]

\* position of the (first) column labelled l
ColPos(frame, l) ==
    CHOOSE k \in 1..Len(frame.columns) :
        /\ frame.columns[k] = l
        /\ \A k2 \in 1..(k - 1) : frame.columns[k2] # l

\* df.ix[:, c]: selection of columns by label
SelectColumns(frame, c) ==
    [frame EXCEPT !.columns = c,
                  !.data = [r \in 1..Len(frame.data) |->
                               [k \in 1..Len(c) |-> frame.data[r][ColPos(frame, c[k])]]]]

\* the positions of frame's columns that are not among the labels in keys
RECURSIVE OtherCols(_, _, _)
OtherCols(frame, keys, k) ==
    IF k > Len(frame.columns) THEN <<>>
    ELSE (IF frame.columns[k] \in Range(keys) THEN <<>> ELSE <<k>>)
         \o OtherCols(frame, keys, k + 1)

\* mutant of SetIndex: the key is built from the key columns in reverse order
SetIndexSwapped(frame, keys) ==
    LET rest == OtherCols(frame, keys, 1) IN
    [index |-> [r \in 1..Len(frame.data) |->
                   [k \in 1..Len(keys) |->
                       frame.data[r][ColPos(frame, keys[Len(keys) + 1 - k])]]],
     columns |-> [k \in 1..Len(rest) |-> frame.columns[rest[k]]],
     data |-> [r \in 1..Len(frame.data) |->
                  [k \in 1..Len(rest) |-> frame.data[r][rest[k]]]]]

\* df.set_index(keys): the key columns become the row index, in row order
SetIndex(frame, keys) ==
    LET rest == OtherCols(frame, keys, 1) IN
    [index |-> [r \in 1..Len(frame.data) |->
                   [k \in 1..Len(keys) |-> frame.data[r][ColPos(frame, keys[k])]]],
     columns |-> [k \in 1..Len(rest) |-> frame.columns[rest[k]]],
     data |-> [r \in 1..Len(frame.data) |->
                  [k \in 1..Len(rest) |-> frame.data[r][rest[k]]]]]

\* mutant of ApplyLimit: the slice keeps one label too many
ApplyLimitWide(frame, c, lim) ==
    IF lim = <<>> THEN frame
    ELSE SelectColumns(frame, Take(c, lim[1] + 3))

\* lines 67-69 / 95-97
ApplyLimit(frame, c, lim) ==
    IF lim = <<>> THEN frame
    ELSE SelectColumns(frame, Take(c, lim[1] + 2))

\* lines 56-72 / 84-100: the frame built from the stored array
BuildFrame(m, d, lim) ==
    LET c == ColumnLabels(m.shape[2] - 2, d) IN
    SetIndex(ApplyLimit(DataFrame(m, c), c, lim), <<<<"lng">>, <<"lat">>>>)

----------------------------------------------------------------------------
(* The loaders *)

\* flux values: all different, so that a misplaced value shows, or all equal
FluxPatterns == {"distinct", "equal"}

FluxValue(p, r, c) == IF p = "distinct" THEN 10 * r + c ELSE 0

\* the stored arrays: R rows of C >= 2 columns, any coordinates (repeated or not)
Matrices ==
    UNION {{[shape |-> <<R, C>>,
             data |-> [r \in 1..R |->
                          [c \in 1..C |-> IF c <= 2 THEN keys[r][c] ELSE FluxValue(p, r, c)]]] :
                keys \in [1..R -> [1..2 -> Vals]], p \in FluxPatterns} :
               R \in 0..MaxRows, C \in 2..MaxCols}

Epochs ==
    {[year |-> 2003, month |-> 12, day |-> 31, hour |-> 21, minute |-> 0, second |-> 0],
     [year |-> 2004, month |-> 2, day |-> 28, hour |-> 22, minute |-> 30, second |-> 0]}

OptEpochs == {<<>>} \cup {Some(e) : e \in Epochs}

OptLimits == {<<>>} \cup {Some(l) : l \in 0..MaxLimit}

\* hdf5_to_dataframe(path, var_name=None, limit=None, dt=None)
hdf5_to_dataframe(vn, lim, d) ==
    LET name == IF vn = <<>> THEN DeriveVarName(path) ELSE vn[1]
        dd == IF d = <<>> THEN DefaultEpoch ELSE d[1]
    IN
    /\ pc = "start"
    /\ fn' = "hdf5_to_dataframe"
    /\ var_arg' = vn
    /\ var_name' = Some(name)
    /\ limit' = lim
    /\ IF name # fileVar
       THEN \* f[var_name] at line 60 raises KeyError
            /\ pc' = "raised"
            /\ dt' = Some(dd)
            /\ UNCHANGED <<cols, df>>
       ELSE /\ pc' = "loaded"
            /\ dt' = Some(dd)
            /\ cols' = ColumnLabels(matrix.shape[2] - 2, dd)
            /\ df' = Some(BuildFrame(matrix, dd, lim))
    /\ UNCHANGED <<path, fileVar, matrix>>
    /\ UNCHANGED exportVars
    /\ UNCHANGED bulkVars

\* mat_to_dataframe(path, var_name, limit=None, dt=None)
mat_to_dataframe(vn, lim, d) ==
    LET dd == IF d = <<>> THEN DefaultEpoch ELSE d[1] IN
    /\ pc = "start"
    /\ fn' = "mat_to_dataframe"
    /\ var_arg' = Some(vn)
    /\ var_name' = Some(vn)
    /\ limit' = lim
    /\ dt' = Some(dd)
    /\ IF vn # fileVar
       THEN \* mat[var_name] at line 88 raises KeyError
            /\ pc' = "raised"
            /\ UNCHANGED <<cols, df>>
       ELSE /\ pc' = "loaded"
            /\ cols' = ColumnLabels(matrix.shape[2] - 2, dd)
            /\ df' = Some(BuildFrame(matrix, dd, lim))
    /\ UNCHANGED <<path, fileVar, matrix>>
    /\ UNCHANGED exportVars
    /\ UNCHANGED bulkVars

VarA == <<"a">>
VarB == <<"b">>

NoCall == [fn |-> "", filename |-> <<>>, replaced |-> <<>>]

IdleExport == fs = <<>> /\ lastCall = NoCall
IdleBulk ==
    /\ listing = <<>>
    /\ regex = <<>>
    /\ i = 0
    /\ csvs = <<>>
    /\ stderr = <<>>

IdleLoader ==
    /\ fn = ""
    /\ var_arg = <<>>
    /\ var_name = <<>>
    /\ limit = <<>>
    /\ dt = <<>>
    /\ cols = <<>>
    /\ df = <<>>

\* a container a1.h holding the array under the name a
Init ==
    /\ pc = "start"
    /\ path = <<"a", "1", ".", "h">>
    /\ fileVar = VarA
    /\ matrix \in Matrices
    /\ IdleLoader
    /\ IdleExport
    /\ IdleBulk

LoadHdf5 == \E vn \in {<<>>, Some(VarA), Some(VarB)}, lim \in OptLimits, d \in OptEpochs :
                hdf5_to_dataframe(vn, lim, d)

LoadMat == \E vn \in {VarA, VarB}, lim \in OptLimits, d \in OptEpochs :
               mat_to_dataframe(vn, lim, d)

Next ==
    \/ LoadHdf5
    \/ LoadMat

Spec == Init /\ [][Next]_vars

----------------------------------------------------------------------------
(* The loaders on every short path *)

PathAlphabet == {"/", ".", "a", "1", "_"}

RECURSIVE Basename(_)
\* the part of p after its last '/'
Basename(p) ==
    IF "/" \in Range(p) THEN Basename(Tail(p)) ELSE p

\* paths of files: the file name holds a letter
Paths == {p \in UNION {[1..n -> PathAlphabet] : n \in 1..MaxPathLen} : "a" \in Range(Basename(p))}

\* the example of the documentation: one grid cell, one flux value
ExampleMatrix == [shape |-> <<1, 3>>, data |-> <<<<0, 1, 1>>>>]

InitName ==
    /\ pc = "start"
    /\ path \in Paths
    /\ fileVar \in {VarA, VarB}
    /\ matrix = ExampleMatrix
    /\ IdleLoader
    /\ IdleExport
    /\ IdleBulk

SpecName == InitName /\ [][Next]_vars

----------------------------------------------------------------------------
(* The exporters *)

\* mutant of Transpose: the labels are exchanged, the values are not moved
TransposeLabelsOnly(frame) ==
    [index |-> frame.columns,
     columns |-> frame.index,
     data |-> [c \in 1..Len(frame.columns) |->
                  [r \in 1..Len(frame.index) |->
                      frame.data[IF c <= Len(frame.index) THEN c ELSE r]
                                [IF r <= Len(frame.columns) THEN r ELSE c]]]]

\* dataframe.T
Transpose(frame) ==
    [index |-> frame.columns,
     columns |-> frame.index,
     data |-> [c \in 1..Len(frame.columns) |->
                  [r \in 1..Len(frame.index) |-> frame.data[r][c]]]]

\* repr of a float: 1 is written '1.0'
FloatRepr(v) == <<v, ".", 0>>

\* float(text)
ParseFloat(t) == t[1]

\* str of a key tuple: '(0.0, 1.0)'
TupleStr(key) == <<"(", FloatRepr(key[1]), ", ", FloatRepr(key[2]), ")">>

\* the key a header cell names
ParseTuple(t) == <<ParseFloat(t[2]), ParseFloat(t[4])>>

\* frame.to_csv(filename, index=True): a header row of column labels behind an
\* empty corner cell, then one row per index entry: its label and its values
CsvRows(frame) ==
    <<<<"">> \o [k \in 1..Len(frame.columns) |-> TupleStr(frame.columns[k])]>>
    \o [r \in 1..Len(frame.index) |->
           <<frame.index[r]>> \o [k \in 1..Len(frame.columns) |-> FloatRepr(frame.data[r][k])]]

\* line 116: the document to_csv writes
CsvDoc(frame) == [fmt |-> "csv", rows |-> CsvRows(Transpose(frame))]

\* mutant of JsonDoc: the entries are put in features directly
JsonDocFlat(frame) ==
    LET t == Transpose(frame) IN
    [fmt |-> "json",
     body |-> [r \in 1..Len(t.index) |->
                  [timestamp |-> t.index[r],
                   features |-> [k \in 1..Len(t.columns) |->
                                     [coordinates |-> t.columns[k], flux |-> t.data[r][k]]]]]]

\* lines 123-136: the collection to_json dumps
JsonDoc(frame) ==
    LET t == Transpose(frame) IN
    [fmt |-> "json",
     body |-> [r \in 1..Len(t.index) |->
                  [timestamp |-> t.index[r],
                   features |-> <<[k \in 1..Len(t.columns) |->
                                      [coordinates |-> t.columns[k], flux |-> t.data[r][k]]]>>]]]

\* lines 146-167: the template to_geojson dumps
GeojsonDoc(frame) ==
    LET t == Transpose(frame) IN
    [fmt |-> "geojson",
     body |-> [type |-> "FeatureCollection",
               features |-> [r \in 1..Len(t.index) |->
                   [type |-> "FeatureCollection",
                    properties |-> [timestamp |-> t.index[r]],
                    features |-> [k \in 1..Len(t.columns) |->
                                     [type |-> "Point",
                                      coordinates |-> t.columns[k],
                                      properties |-> [flux |-> t.data[r][k]]]]]]]]

ToCsvDefault == "casagfed_output_dataframe.csv"
ToJsonDefault == "casagfed_output_dataframe.json"
ToGeojsonDefault == "casagfed_output_dataframe.json"

OutFiles == {ToCsvDefault, ToJsonDefault, ToGeojsonDefault}

\* mutant of WriteFile: the file is opened for appending
WriteFileAppend(files, filename, doc) ==
    [files EXCEPT ![filename] = Append(files[filename], doc)]

\* open(filename, 'wb') / to_csv(filename): the file is truncated, then written
WriteFile(files, filename, doc) ==
    [files EXCEPT ![filename] = <<doc>>]

ExportFrame == UNCHANGED <<pc, path, fileVar, matrix, fn, var_arg, var_name, limit, dt, cols, df,
                           listing, regex, i, csvs, stderr>>

\* to_csv(dataframe, filename='casagfed_output_dataframe.csv')
to_csv(arg) ==
    LET filename == IF arg = <<>> THEN ToCsvDefault ELSE arg[1] IN
    /\ pc = "loaded"
    /\ fs' = WriteFile(fs, filename, CsvDoc(df[1]))
    /\ lastCall' = [fn |-> "to_csv", filename |-> arg, replaced |-> fs[filename]]
    /\ ExportFrame

\* to_json(dataframe, filename='casagfed_output_dataframe.json')
to_json(arg) ==
    LET filename == IF arg = <<>> THEN ToJsonDefault ELSE arg[1] IN
    /\ pc = "loaded"
    /\ fs' = WriteFile(fs, filename, JsonDoc(df[1]))
    /\ lastCall' = [fn |-> "to_json", filename |-> arg, replaced |-> fs[filename]]
    /\ ExportFrame

\* to_geojson(dataframe, filename='casagfed_output_dataframe.json')
to_geojson(arg) ==
    LET filename == IF arg = <<>> THEN ToGeojsonDefault ELSE arg[1] IN
    /\ pc = "loaded"
    /\ fs' = WriteFile(fs, filename, GeojsonDoc(df[1]))
    /\ lastCall' = [fn |-> "to_geojson", filename |-> arg, replaced |-> fs[filename]]
    /\ ExportFrame

\* the state after mat_to_dataframe(path, 'a') on any stored array
InitExport ==
    /\ pc = "loaded"
    /\ path = <<"a", "1", ".", "h">>
    /\ fileVar = VarA
    /\ matrix \in Matrices
    /\ fn = "mat_to_dataframe"
    /\ var_arg = Some(VarA)
    /\ var_name = Some(VarA)
    /\ limit = <<>>
    /\ dt = Some(DefaultEpoch)
    /\ cols = ColumnLabels(matrix.shape[2] - 2, DefaultEpoch)
    /\ df = Some(BuildFrame(matrix, DefaultEpoch, <<>>))
    /\ fs = [f \in OutFiles |-> <<>>]
    /\ lastCall = NoCall
    /\ IdleBulk

ExportCsv == \E arg \in {<<>>, Some(ToJsonDefault)} : to_csv(arg)

ExportJson == \E arg \in {<<>>} : to_json(arg)

ExportGeojson == \E arg \in {<<>>} : to_geojson(arg)

NextExport ==
    \/ ExportCsv
    \/ ExportJson
    \/ ExportGeojson

SpecExport == InitExport /\ [][NextExport]_vars

----------------------------------------------------------------------------
(* bulk_hdf5_to_csv *)

MU == "Month_Uncert"

VarMU == <<MU>>
VarMUa == <<MU, "_", "a">>

\* the symbols matched by the class [\.\w\-\d_]
ClassChars ==
    {".", "-", "_", MU, "a", "b", "c", "h", "m", "s", "t", "v", "x",
     "0", "1", "2", "3", "4", "5", "6", "7", "8", "9"}

\* regex.match(name) for the default '^Month_Uncert[\.\w\-\d_]+.mat' (line 12):
\* the literal, one or more class symbols, any symbol, then 'mat'
DefaultRegexMatch(name) ==
    /\ Len(name) >= 1
    /\ name[1] = MU
    /\ \E k \in 1..Len(name) :
           /\ k + 5 <= Len(name)
           /\ \A j \in 2..(k + 1) : name[j] \in ClassChars
           /\ SubSeq(name, k + 3, k + 5) = <<"m", "a", "t">>

FileNames ==
    {<<MU, "1", ".", "m", "a", "t">>,
     <<MU, "_", "a", "2", ".", "m", "a", "t">>,
     <<MU, "1", ".", "a", ".", "m", "a", "t">>,
     <<"a", ".", "m", "a", "t">>}

\* a directory entry: its name, whether h5py.File opens it, the variables it holds
FileEntries ==
    {[name |-> n, opens |-> FALSE, vars |-> {}] : n \in FileNames}
    \cup {[name |-> n, opens |-> TRUE, vars |-> v] : n \in FileNames, v \in SUBSET {VarMU, VarMUa}}

\* os.listdir: distinct names, any order
Listings ==
    {l \in UNION {[1..n -> FileEntries] : n \in 0..MaxFiles} :
        \A j, k \in 1..Len(l) : l[j].name = l[k].name => j = k}

InitBulk ==
    /\ pc = "bulk"
    /\ path = <<"d">>
    /\ listing \in Listings
    /\ regex \in {<<>>, Some("default")}
    /\ var_arg \in {<<>>, Some(VarMU), Some(VarMUa)}
    /\ var_name = var_arg
    /\ i = 0
    /\ csvs = <<>>
    /\ stderr = <<>>
    /\ fileVar = <<>>
    /\ matrix = <<>>
    /\ fn = "bulk_hdf5_to_csv"
    /\ limit = <<>>
    /\ dt = <<>>
    /\ cols = <<>>
    /\ df = <<>>
    /\ IdleExport

\* lines 22-24: the entry passes the filter
Matches(e) == regex = <<>> \/ DefaultRegexMatch(e.name)

\* lines 26-28: var_name is derived only while it is still None
NameFor(e) == IF var_name = <<>> THEN Some(DeriveVarName(e.name)) ELSE var_name

\* os.path.join(path, name)
Join(p, name) == p \o <<"/">> \o name

\* line 40: the sibling CSV of the entry
CsvPath(e) == Join(path, SplitFirst(e.name, ".") \o <<".", "c", "s", "v">>)

Entry == listing[i + 1]

InLoop == pc = "bulk" /\ i < Len(listing)

\* the arguments and everything outside the batch
BulkFrame ==
    UNCHANGED <<path, fileVar, matrix, fn, var_arg, limit, dt, cols, df, fs, lastCall,
                listing, regex>>

\* lines 22-24: continue
BulkSkip ==
    /\ InLoop
    /\ ~Matches(Entry)
    /\ i' = i + 1
    /\ UNCHANGED <<pc, var_name, csvs, stderr>>
    /\ BulkFrame

\* mutant of BulkOpenFails: the IOError is not caught
BulkOpenFailsAborts ==
    /\ InLoop
    /\ Matches(Entry)
    /\ ~Entry.opens
    /\ var_name' = NameFor(Entry)
    /\ pc' = "raised"
    /\ UNCHANGED <<i, csvs, stderr>>
    /\ BulkFrame

\* lines 31-36: IOError caught, message written, continue
BulkOpenFails ==
    /\ InLoop
    /\ Matches(Entry)
    /\ ~Entry.opens
    /\ var_name' = NameFor(Entry)
    /\ stderr' = Append(stderr, <<"IOError encountered for %s\n", path>>)
    /\ i' = i + 1
    /\ UNCHANGED <<pc, csvs>>
    /\ BulkFrame

\* mutant of BulkMissingVar: the entry is skipped
BulkMissingVarSkips ==
    /\ InLoop
    /\ Matches(Entry)
    /\ Entry.opens
    /\ NameFor(Entry)[1] \notin Entry.vars
    /\ var_name' = NameFor(Entry)
    /\ i' = i + 1
    /\ UNCHANGED <<pc, csvs, stderr>>
    /\ BulkFrame

\* line 39: f.get(var_name) is None, None[:] raises TypeError out of the loop
BulkMissingVar ==
    /\ InLoop
    /\ Matches(Entry)
    /\ Entry.opens
    /\ NameFor(Entry)[1] \notin Entry.vars
    /\ var_name' = NameFor(Entry)
    /\ pc' = "raised"
    /\ UNCHANGED <<i, csvs, stderr>>
    /\ BulkFrame

\* lines 39-40: the array is read and written to the sibling CSV
BulkConvert ==
    /\ InLoop
    /\ Matches(Entry)
    /\ Entry.opens
    /\ NameFor(Entry)[1] \in Entry.vars
    /\ var_name' = NameFor(Entry)
    /\ csvs' = Append(csvs, [src |-> i + 1, file |-> CsvPath(Entry), var |-> NameFor(Entry)[1]])
    /\ i' = i + 1
    /\ UNCHANGED <<pc, stderr>>
    /\ BulkFrame

\* the for loop is exhausted
BulkReturn ==
    /\ pc = "bulk"
    /\ i = Len(listing)
    /\ pc' = "done"
    /\ UNCHANGED <<i, var_name, csvs, stderr>>
    /\ BulkFrame

NextBulk ==
    \/ BulkSkip
    \/ BulkOpenFails
    \/ BulkMissingVar
    \/ BulkConvert
    \/ BulkReturn

SpecBulk == InitBulk /\ [][NextBulk]_vars

----------------------------------------------------------------------------
(* Reading a timestamp label back: seconds since 2000-01-01 00:00:00 *)

DaysBeforeYear(y) == (y - 1) * 365 + ((y - 1) \div 4) - ((y - 1) \div 100) + ((y - 1) \div 400)

RECURSIVE DaysBeforeMonth(_, _)
DaysBeforeMonth(y, m) ==
    IF m = 1 THEN 0 ELSE DaysBeforeMonth(y, m - 1) + DaysInMonth(y, m - 1)

ParseSeconds(label) ==
    (((DaysBeforeYear(label[1]) - DaysBeforeYear(2000) + DaysBeforeMonth(label[1], label[2]) + label[3] - 1) * 24
      + label[4]) * 60 + label[5]) * 60 + label[6]

NumRows == matrix.shape[1]
NumCols == matrix.shape[2]
Loaded == pc = "loaded"
Frame == df[1]

KeyOfRow(r) == <<matrix.data[r][1], matrix.data[r][2]>>

DistinctKeys ==
    \A r1, r2 \in 1..NumRows : KeyOfRow(r1) = KeyOfRow(r2) => r1 = r2

----------------------------------------------------------------------------
(* Claims about the loaders *)

\* C1: the labels built by either loader, before any limit is applied, are C
\* labels: "lng", "lat", then for every i in [0, C-2) the text of the time
\* epoch + i*3h; so the timestamps are strictly increasing, 3 hours apart.
C1_Labels ==
    Loaded =>
        /\ Len(cols) = NumCols
        /\ cols[1] = <<"lng">>
        /\ cols[2] = <<"lat">>
        /\ \A k \in 0..(NumCols - 3) :
               ParseSeconds(cols[3 + k]) = ParseSeconds(Str(dt[1])) + k * 3 * 3600
        /\ \A k \in 0..(NumCols - 4) :
               /\ ParseSeconds(cols[3 + k]) < ParseSeconds(cols[4 + k])
               /\ ParseSeconds(cols[4 + k]) - ParseSeconds(cols[3 + k]) = 3 * 3600

\* two timestamp labels that fall on different days
C1_Witness ==
    /\ Loaded
    /\ NumCols = 4
    /\ cols[3][3] # cols[4][3]

\* C2: without a limit, a matrix with pairwise distinct (column 0, column 1)
\* pairs gives a table of exactly R entries in row order; entry r has key
\* (matrix[r][0], matrix[r][1]) and the values matrix[r][2:], C-2 of them.
C2_Index ==
    (Loaded /\ limit = <<>> /\ DistinctKeys) =>
        /\ Len(Frame.index) = NumRows
        /\ Len(Frame.data) = NumRows
        /\ \A r \in 1..NumRows :
               /\ Frame.index[r] = KeyOfRow(r)
               /\ Frame.data[r] = Drop(matrix.data[r], 2)
               /\ Len(Frame.data[r]) = NumCols - 2

C2_Witness ==
    /\ Loaded
    /\ limit = <<>>
    /\ NumRows = 2
    /\ NumCols = 4
    /\ DistinctKeys
    /\ matrix.data[1][1] # matrix.data[1][2]
    /\ matrix.data[1][3] # matrix.data[1][4]

\* C3: with a limit L >= 0 on a matrix with T = C-2 timestamp columns, the
\* table keeps for every cell exactly the first min(L, T) values under the
\* first min(L, T) timestamp labels, in order, one entry per row keyed by
\* (lng, lat), each value being the one the unlimited table has there.
C3_Limit ==
    (Loaded /\ limit # <<>>) =>
        LET n == Min(limit[1], NumCols - 2)
            full == BuildFrame(matrix, dt[1], <<>>)
        IN
        /\ Frame.columns = SubSeq(cols, 3, 2 + n)
        /\ Len(Frame.index) = NumRows
        /\ Len(Frame.data) = NumRows
        /\ \A r \in 1..NumRows :
               /\ Frame.index[r] = KeyOfRow(r)
               /\ Frame.data[r] = SubSeq(matrix.data[r], 3, 2 + n)
               /\ \A k \in 1..n :
                      /\ Frame.columns[k] = full.columns[k]
                      /\ Frame.data[r][k] = full.data[r][k]

C3_Witness ==
    /\ Loaded
    /\ limit = Some(1)
    /\ NumRows = 2
    /\ NumCols = 4
    /\ matrix.data[1][3] # matrix.data[1][4]
    /\ Len(Frame.columns) = 1

\* a limit beyond the number of timestamp columns keeps them all
C3_WitnessBeyond ==
    /\ Loaded
    /\ limit = Some(3)
    /\ NumCols = 4
    /\ Len(Frame.columns) = 2

----------------------------------------------------------------------------
(* Claims about the exporters *)

\* the file the last exporter call wrote
Target ==
    IF lastCall.filename # <<>> THEN lastCall.filename[1]
    ELSE IF lastCall.fn = "to_csv" THEN ToCsvDefault
    ELSE IF lastCall.fn = "to_json" THEN ToJsonDefault
    ELSE ToGeojsonDefault

Written == fs[Target][1]

NumLabels == Len(Frame.columns)
NumKeys == Len(Frame.index)

\* reading the CSV back: timestamp rows, key columns
ReadCsv(doc) ==
    [index |-> [r \in 1..(Len(doc.rows) - 1) |-> doc.rows[r + 1][1]],
     columns |-> [k \in 1..(Len(doc.rows[1]) - 1) |-> ParseTuple(doc.rows[1][k + 1])],
     data |-> [r \in 1..(Len(doc.rows) - 1) |->
                  [k \in 1..(Len(doc.rows[1]) - 1) |-> ParseFloat(doc.rows[r + 1][k + 1])]]]

\* the field of the row of the t-th timestamp that stands under the header cell of key
FieldUnder(doc, t, key) ==
    LET c == CHOOSE c \in 2..Len(doc.rows[1]) : doc.rows[1][c] = TupleStr(key)
    IN doc.rows[t + 1][c]

\* C6: to_csv writes a header row listing the keys in table order, then
\* exactly one row per timestamp label, in label order, whose first field is
\* the label and whose field under key k is the table's value for cell k at
\* that timestamp; with distinct keys, reading the CSV back and transposing
\* reproduces the table.
C6_CsvTranspose ==
    lastCall.fn = "to_csv" =>
        /\ Len(fs[Target]) = 1
        /\ Written.fmt = "csv"
        /\ Len(Written.rows) = 1 + NumLabels
        /\ Len(Written.rows[1]) = 1 + NumKeys
        /\ \A r \in 1..NumKeys : Written.rows[1][1 + r] = TupleStr(Frame.index[r])
        /\ \A t \in 1..NumLabels :
               /\ Len(Written.rows[1 + t]) = 1 + NumKeys
               /\ Written.rows[1 + t][1] = Frame.columns[t]
               /\ \A r \in 1..NumKeys :
                      Written.rows[1 + t][1 + r] = FloatRepr(Frame.data[r][t])
        /\ DistinctKeys =>
               /\ \A t \in 1..NumLabels : \A r \in 1..NumKeys :
                      ParseFloat(FieldUnder(Written, t, Frame.index[r])) = Frame.data[r][t]
               /\ Transpose(ReadCsv(Written)) = Frame

\* two cells, two timestamps, values that a missing transposition would misplace
C6_Witness ==
    /\ lastCall.fn = "to_csv"
    /\ lastCall.filename = <<>>
    /\ NumKeys = 2
    /\ NumLabels = 2
    /\ DistinctKeys
    /\ Frame.data[1][2] # Frame.data[2][1]

\* C9: to_json emits one object per timestamp label, in label order; each
\* carries the timestamp and a features array holding exactly one inner
\* array, which has one {coordinates, flux} entry per grid cell, in table
\* order: the cell's key and the table's value for it at that timestamp.
C9_JsonShape ==
    lastCall.fn = "to_json" =>
        /\ Len(fs[Target]) = 1
        /\ Written.fmt = "json"
        /\ Len(Written.body) = NumLabels
        /\ \A t \in 1..NumLabels :
               /\ Written.body[t].timestamp = Frame.columns[t]
               /\ Len(Written.body[t].features) = 1
               /\ Len(Written.body[t].features[1]) = NumKeys
               /\ \A r \in 1..NumKeys :
                      Written.body[t].features[1][r] =
                          [coordinates |-> Frame.index[r], flux |-> Frame.data[r][t]]

C9_Witness ==
    /\ lastCall.fn = "to_json"
    /\ NumKeys = 2
    /\ NumLabels = 2
    /\ Frame.index[1] # Frame.index[2]
    /\ Frame.data[1][2] # Frame.data[2][1]

\* C10: to_json and to_geojson have the same default file name and to_csv a
\* different one; every default-filename call of to_json or to_geojson
\* leaves in that file the output of that call alone, and a default-filename
\* call of to_csv writes its own file and leaves that file as it was.
C10_SharedDefault ==
    [][ /\ ToJsonDefault = ToGeojsonDefault
        /\ ToCsvDefault # ToJsonDefault
        /\ (lastCall'.fn = "to_json" /\ lastCall'.filename = <<>>) =>
               fs'[ToJsonDefault] = <<JsonDoc(Frame)>>
        /\ (lastCall'.fn = "to_geojson" /\ lastCall'.filename = <<>>) =>
               fs'[ToJsonDefault] = <<GeojsonDoc(Frame)>>
        /\ (lastCall'.fn = "to_csv" /\ lastCall'.filename = <<>>) =>
               /\ fs'[ToCsvDefault] = <<CsvDoc(Frame)>>
               /\ fs'[ToJsonDefault] = fs[ToJsonDefault]
      ]_vars

\* a to_geojson call that replaced the output of to_json, to_csv's file in place
C10_Witness ==
    /\ lastCall.fn = "to_geojson"
    /\ lastCall.filename = <<>>
    /\ Len(lastCall.replaced) = 1
    /\ lastCall.replaced[1].fmt = "json"
    /\ fs[ToJsonDefault] = <<GeojsonDoc(Frame)>>
    /\ fs[ToCsvDefault] = <<CsvDoc(Frame)>>
    /\ NumKeys >= 1
    /\ NumLabels >= 1

----------------------------------------------------------------------------
(* Claims about bulk_hdf5_to_csv *)

Passes(k) == Matches(listing[k])
Readable(k) == Passes(k) /\ listing[k].opens
Unreadable(k) == Passes(k) /\ ~listing[k].opens

\* the to_csv calls made for the k-th entry of the listing
WritesOf(k) == {c \in 1..Len(csvs) : csvs[c].src = k}

\* the variable the batch asks every container for
Requested ==
    IF var_arg # <<>> THEN var_arg[1]
    ELSE LET first == CHOOSE k \in 1..Len(listing) :
                          Passes(k) /\ \A j \in 1..(k - 1) : ~Passes(j)
         IN DeriveVarName(listing[first].name)

NoMissingVariable ==
    \A k \in 1..Len(listing) : Readable(k) => Requested \in listing[k].vars

\* C4: when every file that opens holds the requested variable, the batch
\* never raises; every entry the loop has passed has exactly one CSV, its
\* sibling, if it matches the filter and opens, and none otherwise; there is
\* exactly one diagnostic line per matching entry that failed to open; so
\* when the batch is done this holds of the whole listing.
C4_OpenFailureIsolated ==
    (pc \in {"bulk", "done", "raised"} /\ NoMissingVariable) =>
        /\ pc # "raised"
        /\ pc = "done" => i = Len(listing)
        /\ \A k \in 1..Len(listing) :
               IF k <= i /\ Readable(k)
               THEN /\ Cardinality(WritesOf(k)) = 1
                    /\ \A c \in WritesOf(k) :
                           csvs[c].file = path \o <<"/">> \o SplitFirst(listing[k].name, ".")
                                               \o <<".", "c", "s", "v">>
               ELSE WritesOf(k) = {}
        /\ Len(csvs) = Cardinality({k \in 1..i : Readable(k)})
        /\ Len(stderr) = Cardinality({k \in 1..i : Unreadable(k)})

\* done, with an unreadable file ahead of a converted one and a filtered one
C4_Witness ==
    /\ pc = "done"
    /\ NoMissingVariable
    /\ Len(listing) = 3
    /\ \E j, k, n \in 1..3 :
           /\ j < k
           /\ Unreadable(j)
           /\ Readable(k)
           /\ ~Passes(n)
    /\ Len(csvs) = 1
    /\ Len(stderr) = 1

\* C5: without an explicit variable name, the variable read from every
\* matching file is the one derived from that file's own name.
C5_OwnVariable ==
    (pc \in {"bulk", "done", "raised"} /\ var_arg = <<>>) =>
        \A c \in 1..Len(csvs) : csvs[c].var = DeriveVarName(listing[csvs[c].src].name)

\* C8: a matching file that opens but lacks the selected variable is never
\* passed over: the failure leaves the loop, every readable matching entry
\* before it has its CSV, and that entry and all later ones have none.
C8_MissingVariableAborts ==
    /\ pc \in {"bulk", "done"} =>
           \A k \in 1..i : Readable(k) => var_name[1] \in listing[k].vars
    /\ pc = "raised" =>
           /\ i < Len(listing)
           /\ Readable(i + 1)
           /\ var_name[1] \notin listing[i + 1].vars
           /\ \A k \in 1..i : Readable(k) => Cardinality(WritesOf(k)) = 1
           /\ \A k \in (i + 1)..Len(listing) : WritesOf(k) = {}
           /\ Len(csvs) = Cardinality({k \in 1..i : Readable(k)})

\* raised after a conversion, with a convertible file still ahead
C8_Witness ==
    /\ pc = "raised"
    /\ i >= 1
    /\ Len(csvs) >= 1
    /\ \E k \in (i + 2)..Len(listing) : Readable(k) /\ var_name[1] \in listing[k].vars

----------------------------------------------------------------------------
(* Claim about the variable name derived from the path *)

\* C7: without a variable name, hdf5_to_dataframe selects the base file name
\* with directory path and extension removed and with leading and trailing
\* digits, underscores, hyphens and spaces stripped, for every path.
C7_BaseName ==
    (fn = "hdf5_to_dataframe" /\ var_arg = <<>>) =>
        var_name[1] = Strip(SplitFirst(Basename(path), "."), StripChars)

====
